---- MODULE Spec2Model ----
(***************************************************************************)
(* Model of main.py: the two validators (validate_protocol_file,           *)
(* validate_settings_file), the two projectors (protocol_read,             *)
(* settings_read) and the command driver (main).                           *)
(*                                                                         *)
(* A parsed YAML node is a record [type, s, items, m]:                     *)
(*   type  "null" | "str" | "int" | "list" | "map"                         *)
(*   s     the text of a scalar                                            *)
(*   items the elements of a list, or the keys of a mapping in document    *)
(*         order (a Python dict keeps insertion order)                     *)
(*   m     the mapping itself, a function from its keys to their values    *)
(* Console text is modelled after rich's markup is rendered; the message   *)
(* of a caught exception is abstracted to the exception's class name.      *)
(***************************************************************************)
EXTENDS Integers, Sequences, FiniteSets, TLC

VARIABLES
    args,     \* the parsed command line: [protocol, settings]
    disk,     \* path -> the file stored there, as far as the run has seen it
    pc,       \* the driver's position
    console,  \* what console.print has written, in order
    calls,    \* the functions main has called, in order
    opened,   \* the paths passed to open(), in order
    rets,     \* function -> its return value ("unset" before it returns)
    raised,   \* function -> the exception that left it ("" for none)
    seen,     \* function -> the file it loaded
    writes    \* how often the environment has rewritten a file

vars == <<args, disk, pc, console, calls, opened, rets, raised, seen, writes>>

----------------------------------------------------------------------------
(* Bounds of the model *)

MaxStates == 2

MaxTrans == 2

MaxMachines == 2

MaxEnvWrites == 1

----------------------------------------------------------------------------
(* YAML nodes *)

NoMap == <<>>

NullV == [type |-> "null", s |-> "", items |-> <<>>, m |-> NoMap]

StrV(str) == [type |-> "str", s |-> str, items |-> <<>>, m |-> NoMap]

IntV(str) == [type |-> "int", s |-> str, items |-> <<>>, m |-> NoMap]

ListV(xs) == [type |-> "list", s |-> "", items |-> xs, m |-> NoMap]

MapV(keys, f) == [type |-> "map", s |-> "", items |-> keys, m |-> f]

Range(seq) == {seq[i] : i \in 1..Len(seq)}

SeqsUpTo(S, n) == UNION {[1..k -> S] : k \in 0..n}

RECURSIVE Join(_, _)
Join(sep, xs) ==
    IF xs = <<>> THEN ""
    ELSE IF Len(xs) = 1 THEN xs[1]
    ELSE xs[1] \o sep \o Join(sep, Tail(xs))

(* Python truthiness of a node: `not v` *)
Falsy(v) ==
    \/ v.type = "null"
    \/ v.type = "str" /\ v.s = ""
    \/ v.type = "int" /\ v.s = "0"
    \/ v.type = "list" /\ v.items = <<>>
    \/ v.type = "map" /\ v.items = <<>>

(* `k in v` for a string k; "TypeError" where Python raises. On a str     *)
(* Python tests for a substring; no scalar of the model contains a key     *)
(* without being equal to it.                                              *)
Contains(v, k) ==
    IF v.type = "map" THEN IF k \in DOMAIN v.m THEN "yes" ELSE "no"
    ELSE IF v.type = "list" THEN IF StrV(k) \in Range(v.items) THEN "yes" ELSE "no"
    ELSE IF v.type = "str" THEN IF v.s = k THEN "yes" ELSE "no"
    ELSE "TypeError"

(* `len(v)`; -1 where Python raises TypeError *)
PyLen(v) ==
    IF v.type \in {"map", "list"} THEN Len(v.items)
    ELSE IF v.type = "str" THEN Len(v.s)
    ELSE -1

----------------------------------------------------------------------------
(* Files on disk *)

Missing == [kind |-> "missing", node |-> NullV]

Malformed == [kind |-> "malformed", node |-> NullV]

Yaml(node) == [kind |-> "yaml", node |-> node]

(* open(file_path) followed by yaml.safe_load(file) *)
Load(file) ==
    IF file.kind = "missing" THEN [exc |-> "FileNotFoundError", content |-> NullV]
    ELSE IF file.kind = "malformed" THEN [exc |-> "YAMLError", content |-> NullV]
    ELSE [exc |-> "", content |-> file.node]

----------------------------------------------------------------------------
(* Console *)

Line(text) == [kind |-> "line", text |-> text, cols |-> <<>>, rows |-> <<>>]

TableOf(cols, rows) == [kind |-> "table", text |-> "", cols |-> cols, rows |-> rows]

IsError(item) == item.kind = "line" /\ Len(item.text) >= 5 /\ SubSeq(item.text, 1, 5) = "Error"

----------------------------------------------------------------------------
(* Protocol documents *)

Labels == {"A", "B"}

AbsentV == [type |-> "absent", s |-> "", items |-> <<>>, m |-> NoMap]

(* A mapping with the given keys in this order; a key whose value is       *)
(* AbsentV is left out of the mapping.                                     *)
MkMap(keys, f) ==
    LET Present(k) == f[k] # AbsentV
        ks == SelectSeq(keys, Present)
    IN MapV([i \in 1..Len(ks) |-> StrV(ks[i])], [k \in Range(ks) |-> f[k]])

TransitionKeys == <<"from", "to", "event">>

FromOpts == {AbsentV} \cup {StrV(l) : l \in Labels}

EventOpts == {AbsentV, StrV(""), StrV("go"), IntV("5")}

(* The transitions of the model: the well-formed ones over Labels, and     *)
(* those with one defect (a missing field, an empty event, an event that   *)
(* is not a string). A transition naming an undeclared state comes from    *)
(* the document's states list.                                             *)
Defective(v) == v \notin {StrV(l) : l \in Labels} \cup {StrV("go")}

Transitions ==
    {MkMap(TransitionKeys, [from |-> x[1], to |-> x[2], event |-> x[3]]) :
        x \in {y \in FromOpts \X FromOpts \X EventOpts :
                  \A i, j \in 1..3 : Defective(y[i]) /\ Defective(y[j]) => i = j}}

RequiredKeys == <<"protocol_name", "states", "transitions">>

StatesOpts == {AbsentV, NullV} \cup {ListV(xs) : xs \in SeqsUpTo({StrV(l) : l \in Labels}, MaxStates)}

TransitionsOpts == {AbsentV, NullV} \cup {ListV(ts) : ts \in SeqsUpTo(Transitions, MaxTrans)}

ProtocolDocs ==
    {MkMap(RequiredKeys, [protocol_name |-> n, states |-> s, transitions |-> t]) :
        n \in {AbsentV, StrV("P")}, s \in StatesOpts, t \in TransitionsOpts}

ProtocolFiles ==
    {Missing, Malformed, Yaml(NullV), Yaml(ListV(<<StrV("x"), StrV("y")>>))}
        \cup {Yaml(d) : d \in ProtocolDocs}

(* repr() of a scalar as Python prints it inside a dict *)
Repr(v) ==
    IF v.type = "str" THEN "'" \o v.s \o "'"
    ELSE IF v.type = "int" THEN v.s
    ELSE "None"

(* str() of a scalar *)
Str(v) == IF v.type \in {"str", "int"} THEN v.s ELSE "None"

(* f"{transition}" *)
TransRepr(t) ==
    LET Item(i) == "'" \o t.items[i].s \o "': " \o Repr(t.m[t.items[i].s])
    IN "{" \o Join(", ", [i \in 1..Len(t.items) |-> Item(i)]) \o "}"

(* any(t["from"] == state for t in transitions): the generator stops at    *)
(* the first match, and raises KeyError at a transition without 'from'     *)
(* that it reaches before one.                                             *)
RECURSIVE AnyFrom(_, _)
AnyFrom(state, ts) ==
    IF ts = <<>> THEN "none"
    ELSE IF "from" \notin DOMAIN Head(ts).m THEN "KeyError"
    ELSE IF Head(ts).m["from"] = state THEN "match"
    ELSE AnyFrom(state, Tail(ts))

(* CheckTransition without the check of the event *)
CheckTransitionNoEvent(t, state_set) ==
    IF ~({"from", "to", "event"} \subseteq DOMAIN t.m) THEN
        "Error: Each transition must contain 'from', 'to', and 'event'"
    ELSE IF t.m["from"] \notin state_set \/ t.m["to"] \notin state_set THEN
        "Error: Invalid state in transition: " \o TransRepr(t)
    ELSE "ok"

(* The three checks the loop makes on one transition, in order *)
CheckTransition(t, state_set) ==
    IF ~({"from", "to", "event"} \subseteq DOMAIN t.m) THEN
        "Error: Each transition must contain 'from', 'to', and 'event'"
    ELSE IF t.m["from"] \notin state_set \/ t.m["to"] \notin state_set THEN
        "Error: Invalid state in transition: " \o TransRepr(t)
    ELSE IF t.m["event"].type # "str" \/ Falsy(t.m["event"]) THEN
        "Error: Event must be a non-empty string in transition: " \o TransRepr(t)
    ELSE "ok"

Result(exc, ret, out) == [exc |-> exc, ret |-> ret, out |-> out]

(* ShapeError with the duplicate check moved before the transitions check *)
ShapeErrorDuplicatesFirst(states, transitions) ==
    IF states.type # "list" \/ Len(states.items) < 1 THEN
        "Error: States should be a non-empty list"
    ELSE IF Len(states.items) # Cardinality(Range(states.items)) THEN
        "Error: Duplicate states found"
    ELSE IF transitions.type # "list" \/ Len(transitions.items) < 1 THEN
        "Error: Transitions should be a non-empty list"
    ELSE "ok"

(* Lines 72-91: states is a non-empty list, transitions is a non-empty     *)
(* list, states has no duplicates; the first failing check's message.      *)
ShapeError(states, transitions) ==
    IF states.type # "list" \/ Len(states.items) < 1 THEN
        "Error: States should be a non-empty list"
    ELSE IF transitions.type # "list" \/ Len(transitions.items) < 1 THEN
        "Error: Transitions should be a non-empty list"
    ELSE IF Len(states.items) # Cardinality(Range(states.items)) THEN
        "Error: Duplicate states found"
    ELSE "ok"

(* The body of the try block of validate_protocol_file, after the load *)
ValidateProtocolBody(content) ==
    LET keyTests == [i \in 1..3 |-> Contains(content, RequiredKeys[i])]
        badKeys == {i \in 1..3 : keyTests[i] # "yes"}
        firstBad == CHOOSE i \in badKeys : \A j \in badKeys : i <= j
    IN
    IF badKeys # {} THEN
        IF keyTests[firstBad] = "TypeError" THEN Result("TypeError", "None", <<>>)
        ELSE Result("", "False", <<Line("Error: Missing key: " \o RequiredKeys[firstBad])>>)
    ELSE IF content.type # "map" THEN Result("TypeError", "None", <<>>)
    ELSE
    LET states == content.m["states"]
        transitions == content.m["transitions"]
        state_set == Range(states.items)
        NoFrom(state) == AnyFrom(state, transitions.items) = "none"
        Raises(state) == AnyFrom(state, transitions.items) = "KeyError"
        state_with_no_transitions == SelectSeq(states.items, NoFrom)
        checks == [i \in 1..Len(transitions.items) |->
                      CheckTransition(transitions.items[i], state_set)]
        failing == {i \in 1..Len(transitions.items) : checks[i] # "ok"}
        firstFailing == CHOOSE i \in failing : \A j \in failing : i <= j
    IN
    IF ShapeError(states, transitions) # "ok" THEN
        Result("", "False", <<Line(ShapeError(states, transitions))>>)
    ELSE IF \E i \in 1..Len(states.items) : Raises(states.items[i]) THEN
        Result("KeyError", "None", <<>>)
    ELSE IF state_with_no_transitions # <<>> THEN
        Result("", "False",
               <<Line("Error: States with no transitions: "
                      \o Join(", ", [i \in 1..Len(state_with_no_transitions) |->
                                        state_with_no_transitions[i].s]))>>)
    ELSE IF failing # {} THEN
        Result("", "False", <<Line(checks[firstFailing])>>)
    ELSE Result("", "True", <<>>)

(* validate_protocol_file: every exception of the load or of the body is   *)
(* caught, reported and turned into False.                                 *)
ValidateProtocolFile(file) ==
    LET loaded == Load(file)
        body == ValidateProtocolBody(loaded.content)
        exc == IF loaded.exc # "" THEN loaded.exc ELSE body.exc
    IN
    IF exc # "" THEN
        Result("", "False", <<Line("Error reading protocol file: " \o exc)>>)
    ELSE body

(* dict.get(key, default) on a node; "AttributeError" on a node without    *)
(* a get method is handled by the callers.                                 *)
Get(v, k, default) == IF k \in DOMAIN v.m THEN v.m[k] ELSE default

ProtocolColumns == <<"State", "Event", "Transition">>

(* One pass of protocol_read's outer loop: the row of one state, or the    *)
(* TypeError of str.join on an event that is not a string.                 *)
ProtocolRow(state, transitions) ==
    LET Matches(t) == Get(t, "from", NullV) = state
        matched == SelectSeq(transitions, Matches)
        transition_info == [i \in 1..Len(matched) |->
            "(" \o Str(Get(matched[i], "from", NullV)) \o " -> "
                \o Str(Get(matched[i], "to", NullV)) \o ")"]
        event_info == [i \in 1..Len(matched) |-> Get(matched[i], "event", StrV("N/A"))]
    IN
    IF transition_info # <<>> THEN
        IF \E i \in 1..Len(event_info) : event_info[i].type # "str" THEN
            [exc |-> "TypeError", row |-> <<>>]
        ELSE [exc |-> "",
              row |-> <<state.s,
                        Join(" | ", [i \in 1..Len(event_info) |-> event_info[i].s]),
                        Join(" | ", transition_info)>>]
    ELSE [exc |-> "", row |-> <<state.s, "No transitions", "No event">>]

(* protocol_read: prints the protocol's name, then the table; an exception *)
(* leaves what was printed before it on the console.                       *)
ProtocolRead(file) ==
    LET loaded == Load(file)
        content == loaded.content
    IN
    IF loaded.exc # "" THEN Result(loaded.exc, "None", <<>>)
    ELSE IF content.type # "map" THEN Result("AttributeError", "None", <<>>)
    ELSE
    LET protocol_name == Get(content, "protocol_name", ListV(<<>>))
        header == Line("Protocol: " \o (IF protocol_name.type = "list" THEN "[]"
                                        ELSE Str(protocol_name)))
        states == Get(content, "states", ListV(<<>>))
        transitions == Get(content, "transitions", ListV(<<>>))
        results == [i \in 1..Len(states.items) |->
                       ProtocolRow(states.items[i], transitions.items)]
    IN
    IF states.type # "list" THEN Result("TypeError", "None", <<header>>)
    ELSE IF states.items # <<>> /\ transitions.type # "list" THEN
        Result("TypeError", "None", <<header>>)
    ELSE IF \E i \in 1..Len(results) : results[i].exc # "" THEN
        Result("TypeError", "None", <<header>>)
    ELSE Result("", "None",
                <<header,
                  TableOf(ProtocolColumns, [i \in 1..Len(results) |-> results[i].row])>>)

----------------------------------------------------------------------------
(* Settings documents *)

MachineNames == {"m1", "m2", "m3"}

InitialStateOpts ==
    {AbsentV, ListV(<<>>), ListV(<<StrV("S0")>>), ListV(<<StrV("S0"), StrV("S1")>>),
     IntV("5")}

MachineData == {NullV} \cup {MkMap(<<"Initial_state">>, [Initial_state |-> v]) :
                                v \in InitialStateOpts}

(* Mappings from distinct machine names, in every document order *)
SettingsDocs ==
    UNION {{MapV([i \in 1..k |-> StrV(names[i])],
                 [n \in Range(names) |-> data[CHOOSE i \in 1..k : names[i] = n]]) :
               names \in {ns \in [1..k -> MachineNames] : Cardinality(Range(ns)) = k},
               data \in [1..k -> MachineData]} : k \in 0..MaxMachines}

SettingsFiles ==
    {Missing, Malformed, Yaml(NullV), Yaml(ListV(<<StrV("x"), StrV("y")>>))}
        \cup {Yaml(d) : d \in SettingsDocs}

ValidMessage == "(True, 'Settings file is valid.')"

(* CheckMachine without the check that Initial_state is not empty *)
CheckMachinePresenceOnly(machine_name, machine_data) ==
    LET has == Contains(machine_data, "Initial_state")
    IN
    IF has = "TypeError" THEN "TypeError"
    ELSE IF has = "no" THEN "Machine '" \o machine_name \o "' is missing an 'Initial_state'."
    ELSE IF machine_data.type # "map" THEN "TypeError"
    ELSE "ok"

(* The checks validate_settings_file makes on one machine entry: "ok", the *)
(* class of the exception Python raises, or the message of the ValueError  *)
(* the code raises.                                                        *)
CheckMachine(machine_name, machine_data) ==
    LET has == Contains(machine_data, "Initial_state")
    IN
    IF has = "TypeError" THEN "TypeError"
    ELSE IF has = "no" THEN "Machine '" \o machine_name \o "' is missing an 'Initial_state'."
    ELSE IF machine_data.type # "map" THEN "TypeError"
    ELSE IF Falsy(machine_data.m["Initial_state"]) THEN
        "Machine '" \o machine_name \o "' has no initial state defined."
    ELSE "ok"

SettingsError(msg) == Result("", "False", <<Line("Error in settings files: " \o msg)>>)

(* validate_settings_file: only ValueError is caught; any other exception  *)
(* leaves the function.                                                    *)
ValidateSettingsFile(file) ==
    LET loaded == Load(file)
        content == loaded.content
        n == Len(content.items)
        checks == [i \in 1..n |->
                      CheckMachine(content.items[i].s, content.m[content.items[i].s])]
        failing == {i \in 1..n : checks[i] # "ok"}
        first == CHOOSE i \in failing : \A j \in failing : i <= j
    IN
    IF loaded.exc # "" THEN Result(loaded.exc, "None", <<>>)
    ELSE IF PyLen(content) = -1 THEN Result("TypeError", "None", <<>>)
    ELSE IF PyLen(content) < 2 THEN
        SettingsError("There must be at least two machines in the settings file.")
    ELSE IF content.type # "map" THEN Result("AttributeError", "None", <<>>)
    ELSE IF failing # {} THEN
        IF checks[first] = "TypeError" THEN Result("TypeError", "None", <<>>)
        ELSE SettingsError(checks[first])
    ELSE Result("", ValidMessage, <<>>)

(* Python truthiness of a validator's return value *)
Truthy(ret) == ret \in {"True", ValidMessage}

SettingsColumns == <<"Machine name", "Inital state">>

(* ", ".join(machine_data["Initial_state"]) *)
SettingsRow(machine, machine_data) ==
    LET v == machine_data.m["Initial_state"]
    IN
    IF machine_data.type # "map" THEN [exc |-> "TypeError", row |-> <<>>]
    ELSE IF "Initial_state" \notin DOMAIN machine_data.m THEN
        [exc |-> "KeyError", row |-> <<>>]
    ELSE IF v.type # "list" \/ \E i \in 1..Len(v.items) : v.items[i].type # "str" THEN
        [exc |-> "TypeError", row |-> <<>>]
    ELSE [exc |-> "",
          row |-> <<machine, Join(", ", [i \in 1..Len(v.items) |-> v.items[i].s])>>]

(* settings_read: prints the heading, then the table; an exception leaves  *)
(* what was printed before it on the console.                              *)
SettingsRead(file) ==
    LET loaded == Load(file)
        content == loaded.content
        header == Line("Imported Settings:")
        results == [i \in 1..Len(content.items) |->
                       SettingsRow(content.items[i].s, content.m[content.items[i].s])]
        bad == {i \in 1..Len(results) : results[i].exc # ""}
        first == CHOOSE i \in bad : \A j \in bad : i <= j
    IN
    IF loaded.exc # "" THEN Result(loaded.exc, "None", <<>>)
    ELSE IF content.type # "map" THEN Result("AttributeError", "None", <<header>>)
    ELSE IF bad # {} THEN Result(results[first].exc, "None", <<header>>)
    ELSE Result("", "None",
                <<header,
                  TableOf(SettingsColumns, [i \in 1..Len(results) |-> results[i].row])>>)

----------------------------------------------------------------------------
(* The command driver *)

ProtocolPaths == {"p.yaml", "x.txt", "proto"}

SettingsPaths == {"p.yaml", "s.yml", "x.txt"}

Paths == ProtocolPaths \cup SettingsPaths

Functions ==
    {"validate_protocol_file", "validate_settings_file", "protocol_read", "settings_read"}

Unknown == [kind |-> "unknown", node |-> NullV]

(* file_path.endswith((".yaml", ".yml")) *)
EndsWith(path, suffix) ==
    Len(path) >= Len(suffix)
        /\ SubSeq(path, Len(path) - Len(suffix) + 1, Len(path)) = suffix

HasYamlExtension(path) == EndsWith(path, ".yaml") \/ EndsWith(path, ".yml")

(* The files open(path) can find: a file keeps the content of its first    *)
(* read unless the environment rewrites it.                                *)
Reads(path, universe) == IF disk[path] = Unknown THEN universe ELSE {disk[path]}

(* The bookkeeping of one call fn(path) that loaded `file` and ended as    *)
(* `res`.                                                                  *)
Invoke(fn, path, file, res) ==
    /\ disk' = [disk EXCEPT ![path] = file]
    /\ console' = console \o res.out
    /\ calls' = Append(calls, fn)
    /\ opened' = Append(opened, path)
    /\ rets' = [rets EXCEPT ![fn] = res.ret]
    /\ raised' = [raised EXCEPT ![fn] = res.exc]
    /\ seen' = [seen EXCEPT ![fn] = file]

(* The handlers at the end of main: print the exception *)
Caught(res) == IF res.exc # "" THEN <<Line("Error: " \o res.exc)>> ELSE <<>>

Init ==
    /\ args \in [protocol : ProtocolPaths, settings : SettingsPaths]
    /\ disk = [p \in Paths |-> Unknown]
    /\ pc = "precheck"
    /\ console = <<>>
    /\ calls = <<>>
    /\ opened = <<>>
    /\ rets = [f \in Functions |-> "unset"]
    /\ raised = [f \in Functions |-> ""]
    /\ seen = [f \in Functions |-> Unknown]
    /\ writes = 0

NotYaml(path) ==
    "Error: The file '" \o path
        \o "' is not a valid YAML file (must have .yaml or .yml extension)."

(* Precheck with the extension check made before the equal-paths check *)
PrecheckExtensionFirst ==
    /\ pc = "precheck"
    /\ IF ~HasYamlExtension(args.protocol) THEN
           /\ console' = Append(console, Line(NotYaml(args.protocol)))
           /\ pc' = "done"
       ELSE IF ~HasYamlExtension(args.settings) THEN
           /\ console' = Append(console, Line(NotYaml(args.settings)))
           /\ pc' = "done"
       ELSE IF args.protocol = args.settings THEN
           /\ console' = Append(console,
                  Line("Error: Protocol file and settings file cannot be the same."))
           /\ pc' = "done"
       ELSE
           /\ console' = console
           /\ pc' = "validate_protocol"
    /\ UNCHANGED <<args, disk, calls, opened, rets, raised, seen, writes>>

(* main, lines 218-227: the two preconditions on the paths *)
Precheck ==
    /\ pc = "precheck"
    /\ IF args.protocol = args.settings THEN
           /\ console' = Append(console,
                  Line("Error: Protocol file and settings file cannot be the same."))
           /\ pc' = "done"
       ELSE IF ~HasYamlExtension(args.protocol) THEN
           /\ console' = Append(console, Line(NotYaml(args.protocol)))
           /\ pc' = "done"
       ELSE IF ~HasYamlExtension(args.settings) THEN
           /\ console' = Append(console, Line(NotYaml(args.settings)))
           /\ pc' = "done"
       ELSE
           /\ console' = console
           /\ pc' = "validate_protocol"
    /\ UNCHANGED <<args, disk, calls, opened, rets, raised, seen, writes>>

(* ValidateProtocol without the short circuit: the settings validator runs *)
(* whatever the protocol validator returned.                               *)
ValidateProtocolNoShortCircuit ==
    /\ pc = "validate_protocol"
    /\ \E file \in Reads(args.protocol, ProtocolFiles) :
        /\ Invoke("validate_protocol_file", args.protocol, file, ValidateProtocolFile(file))
        /\ pc' = "validate_settings"
    /\ UNCHANGED <<args, writes>>

(* main, line 230, left operand of `and` *)
ValidateProtocol ==
    /\ pc = "validate_protocol"
    /\ \E file \in Reads(args.protocol, ProtocolFiles) :
        LET res == ValidateProtocolFile(file) IN
        /\ Invoke("validate_protocol_file", args.protocol, file, res)
        /\ pc' = IF Truthy(res.ret) THEN "validate_settings" ELSE "done"
    /\ UNCHANGED <<args, writes>>

(* main, lines 230-232, right operand of `and` *)
ValidateSettings ==
    /\ pc = "validate_settings"
    /\ \E file \in Reads(args.settings, SettingsFiles) :
        LET res == ValidateSettingsFile(file)
            out == [res EXCEPT !.out = res.out \o Caught(res)]
        IN
        /\ Invoke("validate_settings_file", args.settings, file, out)
        /\ pc' = IF res.exc = "" /\ Truthy(res.ret) THEN "protocol_read" ELSE "done"
    /\ UNCHANGED <<args, writes>>

(* main, line 233 *)
ProtocolReadStep ==
    /\ pc = "protocol_read"
    /\ \E file \in Reads(args.protocol, ProtocolFiles) :
        LET res == ProtocolRead(file)
            out == [res EXCEPT !.out = res.out \o Caught(res)]
        IN
        /\ Invoke("protocol_read", args.protocol, file, out)
        /\ pc' = IF res.exc = "" THEN "settings_read" ELSE "done"
    /\ UNCHANGED <<args, writes>>

(* main, line 234 *)
SettingsReadStep ==
    /\ pc = "settings_read"
    /\ \E file \in Reads(args.settings, SettingsFiles) :
        LET res == SettingsRead(file)
            out == [res EXCEPT !.out = res.out \o Caught(res)]
        IN
        /\ Invoke("settings_read", args.settings, file, out)
        /\ pc' = "done"
    /\ UNCHANGED <<args, writes>>

Next ==
    \/ Precheck
    \/ ValidateProtocol
    \/ ValidateSettings
    \/ ProtocolReadStep
    \/ SettingsReadStep

Spec == Init /\ [][Next]_vars

----------------------------------------------------------------------------
(* Each function applied on its own to every file of the model *)

InitFn ==
    /\ args = [protocol |-> "p.yaml", settings |-> "s.yml"]
    /\ disk = [p \in Paths |-> Unknown]
    /\ pc = "idle"
    /\ console = <<>>
    /\ calls = <<>>
    /\ opened = <<>>
    /\ rets = [f \in Functions |-> "unset"]
    /\ raised = [f \in Functions |-> ""]
    /\ seen = [f \in Functions |-> Unknown]
    /\ writes = 0

CallValidateProtocolFile ==
    /\ pc = "idle"
    /\ \E file \in ProtocolFiles :
        Invoke("validate_protocol_file", args.protocol, file, ValidateProtocolFile(file))
    /\ pc' = "returned"
    /\ UNCHANGED <<args, writes>>

CallProtocolRead ==
    /\ pc = "idle"
    /\ \E file \in ProtocolFiles :
        Invoke("protocol_read", args.protocol, file, ProtocolRead(file))
    /\ pc' = "returned"
    /\ UNCHANGED <<args, writes>>

CallValidateSettingsFile ==
    /\ pc = "idle"
    /\ \E file \in SettingsFiles :
        Invoke("validate_settings_file", args.settings, file, ValidateSettingsFile(file))
    /\ pc' = "returned"
    /\ UNCHANGED <<args, writes>>

CallSettingsRead ==
    /\ pc = "idle"
    /\ \E file \in SettingsFiles :
        Invoke("settings_read", args.settings, file, SettingsRead(file))
    /\ pc' = "returned"
    /\ UNCHANGED <<args, writes>>

NextFn ==
    \/ CallValidateProtocolFile
    \/ CallProtocolRead
    \/ CallValidateSettingsFile
    \/ CallSettingsRead

SpecFn == InitFn /\ [][NextFn]_vars

----------------------------------------------------------------------------
(* The driver in an environment that edits the files between its steps:    *)
(* every function opens its path again (lines 15, 62, 135, 156).           *)

DropLast(seq) == SubSeq(seq, 1, Len(seq) - 1)

(* The document without the last entry of its top-level mapping *)
DropLastEntry(node) ==
    LET keys == DropLast(node.items)
    IN MapV(keys, [k \in {keys[i].s : i \in 1..Len(keys)} |-> node.m[k]])

(* The protocol document without its last transition *)
DropLastTransition(node) ==
    [node EXCEPT !.m["transitions"] = ListV(DropLast(node.m["transitions"].items))]

Edits(file) ==
    {Missing}
        \cup {Yaml(DropLastEntry(file.node)) :
                 x \in IF file.kind = "yaml" /\ file.node.type = "map"
                          /\ file.node.items # <<>> THEN {1} ELSE {}}
        \cup {Yaml(DropLastTransition(file.node)) :
                 x \in IF file.kind = "yaml" /\ file.node.type = "map"
                          /\ "transitions" \in DOMAIN file.node.m
                          /\ file.node.m["transitions"].items # <<>> THEN {1} ELSE {}}

EnvWrite ==
    /\ pc \in {"validate_settings", "protocol_read", "settings_read"}
    /\ writes < MaxEnvWrites
    /\ \E path \in {args.protocol, args.settings} :
        /\ disk[path] # Unknown
        /\ \E file \in Edits(disk[path]) : disk' = [disk EXCEPT ![path] = file]
    /\ writes' = writes + 1
    /\ UNCHANGED <<args, pc, console, calls, opened, rets, raised, seen>>

NextEnv ==
    \/ Precheck
    \/ ValidateProtocol
    \/ ValidateSettings
    \/ ProtocolReadStep
    \/ SettingsReadStep
    \/ EnvWrite

SpecEnv == Init /\ [][NextEnv]_vars

----------------------------------------------------------------------------
(* Properties *)

StepOrder ==
    <<"validate_protocol_file", "validate_settings_file", "protocol_read", "settings_read">>

Called(fn) == \E i \in 1..Len(calls) : calls[i] = fn

Tables == {i \in 1..Len(console) : console[i].kind = "table"}

Errors == {i \in 1..Len(console) : IsError(console[i])}

(* C1: main calls the protocol validator, the settings validator, the      *)
(* protocol projector and the settings projector in this order, each only  *)
(* after every earlier one succeeded: the settings validator is not called *)
(* after the protocol validator returned failure, and no projector is      *)
(* called unless both validators returned success.                         *)
C1_StepOrder ==
    /\ Len(calls) <= Len(StepOrder)
    /\ \A i \in 1..Len(calls) : calls[i] = StepOrder[i]
    /\ Len(calls) >= 2 => rets["validate_protocol_file"] = "True"
    /\ Len(calls) >= 3 =>
        /\ raised["validate_settings_file"] = ""
        /\ rets["validate_settings_file"] = ValidMessage
    /\ Len(calls) >= 4 => raised["protocol_read"] = ""
    /\ pc = "done" /\ Len(calls) = 1 => rets["validate_protocol_file"] = "False"

C1_Witness == pc = "done" /\ calls = StepOrder /\ raised["settings_read"] = ""

YamlPaths == {"p.yaml", "s.yml"}

PrecheckFails ==
    \/ args.protocol = args.settings
    \/ args.protocol \notin YamlPaths
    \/ args.settings \notin YamlPaths

(* C4: with equal paths, or a path ending in neither .yaml nor .yml, main  *)
(* prints the precondition error and ends without opening a file or        *)
(* calling a validator or projector; equal paths are reported before a bad *)
(* extension, the protocol path's extension before the settings path's.    *)
C4_PrecheckRefuses ==
    pc # "precheck" /\ PrecheckFails =>
        /\ pc = "done"
        /\ opened = <<>>
        /\ calls = <<>>
        /\ console = <<Line(
              IF args.protocol = args.settings
              THEN "Error: Protocol file and settings file cannot be the same."
              ELSE IF args.protocol \notin YamlPaths THEN NotYaml(args.protocol)
              ELSE NotYaml(args.settings))>>

C4_Witness ==
    /\ pc = "done"
    /\ args.protocol = args.settings
    /\ args.protocol \notin YamlPaths
    /\ Len(console) = 1

(* C8: a finished run of main has printed either both tables, the protocol *)
(* table first, and no error, or at least one error and no table.          *)
C8_TablesOrErrors ==
    pc = "done" =>
        \/ /\ Errors = {}
           /\ Cardinality(Tables) = 2
           /\ \E i, j \in Tables :
               /\ i < j
               /\ console[i].cols = ProtocolColumns
               /\ console[j].cols = SettingsColumns
        \/ Errors # {} /\ Tables = {}

ProtocolInput == seen["validate_protocol_file"]

PStates == ProtocolInput.node.m["states"]

PTransitions == ProtocolInput.node.m["transitions"]

HasRequiredKeys == {"protocol_name", "states", "transitions"} \subseteq DOMAIN ProtocolInput.node.m

(* The protocol validator ran on a mapping whose states, if present, are a *)
(* list and whose transitions, if present, are a list.                     *)
WellTypedProtocol ==
    /\ Called("validate_protocol_file")
    /\ ProtocolInput.kind = "yaml"
    /\ ProtocolInput.node.type = "map"
    /\ "states" \in DOMAIN ProtocolInput.node.m => PStates.type = "list"
    /\ "transitions" \in DOMAIN ProtocolInput.node.m => PTransitions.type = "list"

HasAllFields(t) == {"from", "to", "event"} \subseteq DOMAIN t.m

SoundTransition(t) ==
    /\ HasAllFields(t)
    /\ \E i \in 1..Len(PStates.items) : PStates.items[i] = t.m["from"]
    /\ \E i \in 1..Len(PStates.items) : PStates.items[i] = t.m["to"]
    /\ t.m["event"].type = "str"
    /\ t.m["event"].s # ""

(* Checks 1 to 5 of the protocol validator, stated on the document *)
PassesChecks1to5 ==
    /\ HasRequiredKeys
    /\ PStates.items # <<>>
    /\ PTransitions.items # <<>>
    /\ \A i, j \in 1..Len(PStates.items) : PStates.items[i] = PStates.items[j] => i = j
    /\ \A i \in 1..Len(PStates.items) : \E k \in 1..Len(PTransitions.items) :
        /\ "from" \in DOMAIN PTransitions.items[k].m
        /\ PTransitions.items[k].m["from"] = PStates.items[i]

(* C2: on a mapping whose states are a list of strings and whose           *)
(* transitions are a list of mappings, validate_protocol_file returns True *)
(* exactly when the three keys are present, states and transitions are not *)
(* empty, the states are pairwise distinct, every state is the `from` of a *)
(* transition, and every transition has from, to and event, declared from  *)
(* and to, and a non-empty string event; otherwise it returns False.       *)
C2_ValidatorDecides ==
    WellTypedProtocol =>
        /\ raised["validate_protocol_file"] = ""
        /\ rets["validate_protocol_file"] =
              IF /\ PassesChecks1to5
                 /\ \A k \in 1..Len(PTransitions.items) : SoundTransition(PTransitions.items[k])
              THEN "True" ELSE "False"

C2_Witness ==
    /\ WellTypedProtocol
    /\ rets["validate_protocol_file"] = "True"
    /\ Len(PStates.items) = 2
    /\ Len(PTransitions.items) = 2

(* C3: validate_settings_file never lets an exception reach its caller.    *)
C3_NeverRaises == raised["validate_settings_file"] = ""

SettingsInput == seen["validate_settings_file"]

MachineName(i) == SettingsInput.node.items[i].s

MachineOf(i) == SettingsInput.node.m[MachineName(i)]

MachineCount == Len(SettingsInput.node.items)

NoInitialState(i) ==
    \/ "Initial_state" \notin DOMAIN MachineOf(i).m
    \/ MachineOf(i).m["Initial_state"] = ListV(<<>>)

SettingsMapping ==
    /\ Called("validate_settings_file")
    /\ SettingsInput.kind = "yaml"
    /\ SettingsInput.node.type = "map"

(* C5: on a mapping of machine names, validate_settings_file fails with    *)
(* the two-machines message when there are fewer than two entries, before  *)
(* it looks at any entry; with two or more entries that are mappings it    *)
(* fails naming the first machine in document order whose Initial_state is *)
(* absent or empty, and returns a truthy value when there is none.         *)
C5_SettingsVerdict ==
    SettingsMapping =>
        /\ MachineCount < 2 =>
            /\ rets["validate_settings_file"] = "False"
            /\ console = <<Line("Error in settings files: "
                  \o "There must be at least two machines in the settings file.")>>
        /\ MachineCount >= 2 /\ (\A i \in 1..MachineCount : MachineOf(i).type = "map") =>
            IF \E i \in 1..MachineCount : NoInitialState(i) THEN
                LET first == CHOOSE i \in 1..MachineCount :
                        NoInitialState(i) /\ \A j \in 1..(i - 1) : ~NoInitialState(j)
                IN
                /\ rets["validate_settings_file"] = "False"
                /\ console = <<Line("Error in settings files: Machine '" \o MachineName(first)
                      \o (IF "Initial_state" \in DOMAIN MachineOf(first).m
                          THEN "' has no initial state defined."
                          ELSE "' is missing an 'Initial_state'."))>>
            ELSE
                /\ rets["validate_settings_file"] \notin {"False", "None", "unset"}
                /\ raised["validate_settings_file"] = ""
                /\ console = <<>>

C5_Witness ==
    /\ SettingsMapping
    /\ MachineCount = 2
    /\ \A i \in 1..MachineCount : MachineOf(i).type = "map"
    /\ ~NoInitialState(1)
    /\ NoInitialState(2)
    /\ rets["validate_settings_file"] = "False"

ReadInput == seen["protocol_read"]

RStates == Get(ReadInput.node, "states", ListV(<<>>)).items

RTransitions == Get(ReadInput.node, "transitions", ListV(<<>>)).items

(* C6: protocol_read prints one row per declared state, in order; the row  *)
(* of a state with matching transitions holds their events and their       *)
(* "(from -> to)" strings, each joined with " | " in the transitions'      *)
(* order; the row of a state without one holds "No event" in the Event     *)
(* column and "No transitions" in the Transition column.                   *)
C6_TableRows ==
    Called("protocol_read") /\ Tables # {} =>
        \A n \in Tables :
            /\ console[n].cols = <<"State", "Event", "Transition">>
            /\ Len(console[n].rows) = Len(RStates)
            /\ \A i \in 1..Len(RStates) :
                LET From(t) == Get(t, "from", NullV) = RStates[i]
                    matched == SelectSeq(RTransitions, From)
                    row == console[n].rows[i]
                IN
                /\ row[1] = RStates[i].s
                /\ IF matched = <<>> THEN row[2] = "No event" /\ row[3] = "No transitions"
                   ELSE /\ row[2] = Join(" | ", [k \in 1..Len(matched) |->
                                           Get(matched[k], "event", StrV("N/A")).s])
                        /\ row[3] = Join(" | ", [k \in 1..Len(matched) |->
                                           "(" \o Str(Get(matched[k], "from", NullV)) \o " -> "
                                               \o Str(Get(matched[k], "to", NullV)) \o ")"])

HasDuplicateState ==
    /\ Called("validate_protocol_file")
    /\ ProtocolInput.kind = "yaml"
    /\ ProtocolInput.node.type = "map"
    /\ HasRequiredKeys
    /\ PStates.type = "list"
    /\ \E i, j \in 1..Len(PStates.items) : i # j /\ PStates.items[i] = PStates.items[j]

(* C7 as stated: a document with the three keys and a duplicated state     *)
(* fails with the duplicate-states diagnostic and no other, whatever its   *)
(* transitions are.                                                        *)
C7_DuplicateAlwaysReported ==
    HasDuplicateState =>
        /\ rets["validate_protocol_file"] = "False"
        /\ console = <<Line("Error: Duplicate states found")>>

(* C7 as amended: such a document fails with exactly one diagnostic, the   *)
(* duplicate-states one when transitions is a non-empty list and the       *)
(* transitions one when transitions is empty or not a list.                *)
C7_DuplicateAfterTransitions ==
    HasDuplicateState =>
        /\ rets["validate_protocol_file"] = "False"
        /\ console = <<Line(
              IF PTransitions.type = "list" /\ PTransitions.items # <<>>
              THEN "Error: Duplicate states found"
              ELSE "Error: Transitions should be a non-empty list")>>

C7_Witness ==
    /\ HasDuplicateState
    /\ PTransitions.type # "list"
    /\ console = <<Line("Error: Transitions should be a non-empty list")>>

(* C9: a document that passes checks 1 to 5, has a transition lacking      *)
(* from, to or event, and whose other transitions are sound, fails with    *)
(* exactly the diagnostic that each transition must contain 'from', 'to',  *)
(* and 'event'.                                                            *)
C9_MissingFieldReported ==
    /\ WellTypedProtocol
    /\ PassesChecks1to5
    /\ \E k \in 1..Len(PTransitions.items) : ~HasAllFields(PTransitions.items[k])
    /\ \A k \in 1..Len(PTransitions.items) :
        HasAllFields(PTransitions.items[k]) => SoundTransition(PTransitions.items[k])
    =>
        /\ rets["validate_protocol_file"] = "False"
        /\ console = <<Line("Error: Each transition must contain 'from', 'to', and 'event'")>>

(* C10: when a run prints a table, each projector rendered the file its    *)
(* validator accepted, also when the environment edits the files between   *)
(* the driver's steps; so no printed protocol row is that of a state       *)
(* without outgoing transitions.                                           *)
C10_RendersValidated ==
    Tables # {} =>
        /\ seen["protocol_read"] = seen["validate_protocol_file"]
        /\ Called("settings_read") => seen["settings_read"] = seen["validate_settings_file"]
        /\ \A n \in Tables : \A i \in 1..Len(console[n].rows) :
            "No transitions" \notin Range(console[n].rows[i])

====
